---- MODULE Spec2Model ----
(***************************************************************************)
(* targetcli-fb: the targetclid daemon and the targetcli client that talks *)
(* to it over a Unix stream socket.                                        *)
(*                                                                         *)
(* The model has three layers that share one module:                       *)
(*   - the wire layer: one client session (switch_to_daemon/call_daemon),  *)
(*     the byte streams of its connections and the daemon's worker         *)
(*     (client_thread) with the shared shell;                              *)
(*   - the daemon layer: daemon processes from start to exit (PID lock,    *)
(*     socket set-up, accept loop, signals);                               *)
(*   - the client layer: client processes from start to exit (lock file).  *)
(***************************************************************************)
EXTENDS Integers, Sequences, FiniteSets, TLC

(***************************************************************************)
(* Bounds of the model.                                                    *)
(***************************************************************************)
MaxTextLen == 2

MaxLines == 2

MaxPartial == 1

NDaemons == 2

NClients == 2

MaxAccepts == 2

\* reads at the end of the stream that are followed
MaxEmptyReads == 2

(***************************************************************************)
(* Program constants.                                                      *)
(***************************************************************************)
HeaderLen == 4
BodyChunk == 1024
RequestChunk == 65535

Min(a, b) == IF a < b THEN a ELSE b

IsPrefix(p, s) == Len(p) <= Len(s) /\ SubSeq(s, 1, Len(p)) = p

Drop(s, k) == SubSeq(s, k + 1, Len(s))

Take(s, k) == SubSeq(s, 1, k)

RECURSIVE SeqsUpTo(_, _)
SeqsUpTo(S, n) ==
    IF n = 0 THEN {<<>>}
    ELSE LET shorter == SeqsUpTo(S, n - 1)
         IN  shorter \cup {Append(t, c) : t \in shorter, c \in S}

(***************************************************************************)
(* Text and bytes.  A text is a sequence of characters (a Python str), a   *)
(* byte string a sequence of numbers 0..255.  str.encode() and             *)
(* bytes.decode() are UTF-8 and strict.                                    *)
(***************************************************************************)
Chars == {"a", "x", "y", "/", "E", "nl", "eacute", "euro"}

UTF8(c) ==
    CASE c = "a"      -> <<97>>
      [] c = "x"      -> <<120>>
      [] c = "y"      -> <<121>>
      [] c = "/"      -> <<47>>
      [] c = "E"      -> <<69>>
      [] c = "nl"     -> <<10>>
      [] c = "eacute" -> <<195, 169>>
      [] c = "euro"   -> <<226, 130, 172>>

RECURSIVE Encode(_)
Encode(text) ==
    IF text = <<>> THEN <<>> ELSE UTF8(Head(text)) \o Encode(Tail(text))

\* bytes.decode(): fails on a truncated or invalid sequence
RECURSIVE Decode(_)
Decode(bytes) ==
    IF bytes = <<>> THEN [ok |-> TRUE, text |-> <<>>]
    ELSE LET first == {c \in Chars : IsPrefix(UTF8(c), bytes)}
         IN  IF first = {} THEN [ok |-> FALSE, text |-> <<>>]
             ELSE LET c == CHOOSE ch \in first : TRUE
                      rest == Decode(Drop(bytes, Len(UTF8(c))))
                  IN  [ok |-> rest.ok,
                       text |-> IF rest.ok THEN <<c>> \o rest.text ELSE <<>>]

\* struct.pack('i', n): four bytes, least significant first, two's complement
Pack(n) ==
    <<n % 256, (n \div 256) % 256, (n \div 65536) % 256,
      (n \div 16777216) % 256>>

\* struct.unpack('i', var)[0] of exactly four bytes
Unpack(var) ==
    var[1] + 256 * var[2] + 65536 * var[3]
    + 16777216 * (IF var[4] >= 128 THEN var[4] - 256 ELSE var[4])

\* str.splitlines()
RECURSIVE SplitLines(_)
SplitLines(text) ==
    IF text = <<>> THEN <<>>
    ELSE LET nls == {i \in 1..Len(text) : text[i] = "nl"}
         IN  IF nls = {} THEN <<text>>
             ELSE LET i == CHOOSE j \in nls : \A k \in nls : j <= k
                  IN  <<Take(text, i - 1)>> \o SplitLines(Drop(text, i))

(***************************************************************************)
(* The shared shell of the daemon (ConfigShell with the UIRoot tree): the  *)
(* current node and the storage objects.  A command line is a sequence of  *)
(* request symbols; '%' separates the command lines of one request.        *)
(***************************************************************************)
Objs == {"x"}

RootPath == <<"/">>

SubPath == <<"/", "eacute">>

CdRoot == <<"cd ", "/">>

CdSub == <<"cd ", "/s">>

\* the command line pwd takes two symbols, so that a read can end inside it
Pwd == <<"pw", "d">>

ExitCmd == <<"exit">>

Mk(o) == <<"mk ", o>>

Rm(o) == <<"rm ", o>>

Delim == "%"

Sentinel == <<"-END@OF@", "DATA-">>

ErrText == <<"E", "nl">>

\* the sentinel occurs in the chunk (bytes `in` bytes)
Contains(chunk, pat) ==
    \E i \in 0..(Len(chunk) - Len(pat)) :
        SubSeq(chunk, i + 1, i + Len(pat)) = pat

\* str.split('%')
RECURSIVE Split(_)
Split(s) ==
    LET ds == {i \in 1..Len(s) : s[i] = Delim}
    IN  IF ds = {} THEN <<s>>
        ELSE LET i == CHOOSE j \in ds : \A k \in ds : j <= k
             IN  <<Take(s, i - 1)>> \o Split(Drop(s, i))

\* '%'.join(inputs)
RECURSIVE JoinLines(_)
JoinLines(lines) ==
    IF lines = <<>> THEN <<>>
    ELSE IF Len(lines) = 1 THEN lines[1]
    ELSE lines[1] \o <<Delim>> \o JoinLines(Tail(lines))

\* shell.run_cmdline(cmd): the new current node and objects, the text the
\* command writes to the console, and whether it raises
RunCmdline(cmd, dir, objects) ==
    LET same == [cwd |-> dir, objs |-> objects, out |-> <<>>, raised |-> FALSE]
    IN  CASE cmd = <<>>    -> same
          [] cmd = CdRoot  -> [same EXCEPT !.cwd = RootPath]
          [] cmd = CdSub   -> [same EXCEPT !.cwd = SubPath]
          [] cmd = Pwd     -> [same EXCEPT !.out = dir \o <<"nl">>]
          [] cmd = ExitCmd -> same
          [] \E o \in Objs : cmd = Mk(o) ->
                LET o == cmd[2]
                IN  IF o \in objects THEN [same EXCEPT !.raised = TRUE]
                    ELSE [same EXCEPT !.objs = objects \cup {o},
                                      !.out = <<o, "nl">>]
          [] \E o \in Objs : cmd = Rm(o) ->
                LET o == cmd[2]
                IN  IF o \notin objects THEN [same EXCEPT !.raised = TRUE]
                    ELSE [same EXCEPT !.objs = objects \ {o},
                                      !.out = <<"a", "nl">>]
          [] OTHER -> [same EXCEPT !.raised = TRUE]

\* the loop taken from the end of the list
RECURSIVE RunAll_LastFirst(_, _)
RunAll_LastFirst(cmds, st) ==
    IF cmds = <<>> \/ st.raised THEN st
    ELSE LET last == cmds[Len(cmds)]
             r == RunCmdline(last, st.cwd, st.objs)
         IN  RunAll_LastFirst(Take(cmds, Len(cmds) - 1),
                    [cwd |-> r.cwd, objs |-> r.objs, out |-> st.out \o r.out,
                     log |-> Append(st.log, [cmd |-> last, out |-> r.out]),
                     raised |-> r.raised])

\* for cmd in list_data: self.shell.run_cmdline(cmd)   (inside one try);
\* log keeps, in the order of the calls, each command line and what it wrote
RECURSIVE RunAll(_, _)
RunAll(cmds, st) ==
    IF cmds = <<>> \/ st.raised THEN st
    ELSE LET r == RunCmdline(Head(cmds), st.cwd, st.objs)
         IN  RunAll(Tail(cmds),
                    [cwd |-> r.cwd, objs |-> r.objs, out |-> st.out \o r.out,
                     log |-> Append(st.log, [cmd |-> Head(cmds), out |-> r.out]),
                     raised |-> r.raised])

\* the except clause drops the error
ExecuteChunk_Swallow(chunk, dir, objects) ==
    RunAll(Split(chunk),
           [cwd |-> dir, objs |-> objects, out |-> <<>>,
            log |-> <<>>, raised |-> FALSE])

\* the else branch of client_thread up to the restore of the console:
\* split the chunk, run the command lines, push the error to the stream
ExecuteChunk(chunk, dir, objects) ==
    LET st == RunAll(Split(chunk),
                     [cwd |-> dir, objs |-> objects, out |-> <<>>,
                      log |-> <<>>, raised |-> FALSE])
    IN  [st EXCEPT !.out = IF st.raised THEN st.out \o ErrText ELSE st.out]

\* the length counts the header too
Header_Inclusive(text) == Pack(Len(text) + HeaderLen)

\* the response of client_thread: length header, then the body if any
Header(text) == Pack(Len(text))

Body(text) == IF Len(text) # 0 THEN Encode(text) ELSE <<>>

(***************************************************************************)
(* State.                                                                  *)
(***************************************************************************)
VARIABLES
    \* wire layer: the connections of the client, in the order it opened them
    conn,               \* per connection: bytes in flight and open ends
    nconn,              \* connections the client has opened so far
    \* wire layer: the daemon (main loop of targetclid.main, client_thread)
    mpc,                \* main loop: "accept" or "join"; "killed"
    accepted,           \* connections accepted so far
    wpc,                \* worker: none, recv, send, send_body, done,
                        \* dead, killed
    wconn,              \* the connection the worker serves
    partials,           \* partial reads of the request on this connection
    data,               \* the chunk of the last connection.recv
    woutput,            \* the captured output read back from the file
    cwd,                \* shell: current node
    objs,               \* shell: storage objects
    lastExec,           \* history: the last chunk run on this connection
    lastFrame,          \* history: the last response sent on it
    \* wire layer: the client session (switch_to_daemon)
    spc,                \* start, the call site inside call_daemon, input, exited
    mode,               \* oneshot, interactive, batch
    argv,               \* the command line of a one-shot invocation
    prompt_path,
    inputs,
    nlines,             \* non-empty lines read from the user so far
    cexit,              \* exit status, -1 while running
    tree0,              \* history: the shell state before the session
    \* wire layer: call_daemon
    cpc,                \* idle, connect, send, recv_hdr, recv_body, output,
                        \* return, or the exception that ended it
    req,
    get_pwd,
    amount_expected,
    amount_received,
    empty_reads,        \* reads of the body that returned no data
    output,
    path,
    printed,            \* what the call wrote to the terminal
    \* daemon layer: the targetclid processes
    dpc,                \* off, open, lock, tree, sock, accept, join, release,
                        \* exited
    pidLock,            \* the processes that hold the lock on the PID file
    NoSignal,
    sock,               \* none, inherited, listening, closed
    dtree,              \* UIRoot was built and refreshed
    dtouch,             \* history: what the process did to the socket path
    dmsg,               \* the last message the process displayed
    dexit,              \* exit status, -1 while running
    listen_pid,         \* LISTEN_PID is set in the environment
    workers,            \* per process and connection: the worker's state
    naccept,            \* connections the process accepted so far
    con_stdout,         \* the sink of the console: saved (the one kept at
                        \* startup) or capture (a worker's temporary file)
    dsignal,            \* history: where main was when a signal arrived
    dfrom,              \* history: where main was when the process ended
    \* client layer: the targetcli processes
    kpc,                \* off, open, lock, main, daemon, tree, oneshot, shell,
                        \* exited
    opLock,             \* the processes that hold the lock on the lock file
    kargs,              \* sys.argv[1:]: none, cmd, help, version, disable
    auto_use_daemon,    \* the saved preference
    kreleased,          \* history: release_op_lock was called
    klocal,             \* history: the process built a local tree
    kexit,              \* exit status, -1 while running
    kmsg,               \* the hint, once the process has displayed it
    kfrom               \* history: where main was when the process ended

connVars == <<conn, nconn>>

workerVars == <<mpc, accepted, wpc, wconn, partials, data, woutput, cwd, objs,
                lastExec, lastFrame>>

sessVars == <<spc, mode, argv, prompt_path, inputs, nlines, cexit, tree0>>

callVars == <<cpc, req, get_pwd, amount_expected, amount_received, output,
              path, printed, empty_reads>>

wireVars == <<connVars, workerVars, sessVars, callVars>>

daemonVars == <<dpc, pidLock, NoSignal, sock, dtree, dtouch, dmsg, dexit,
                listen_pid, workers, naccept, dsignal, dfrom, con_stdout>>

clientVars == <<kpc, opLock, kargs, auto_use_daemon, kreleased, klocal, kexit,
                kmsg, kfrom>>

\* what the actions of the wire layer leave alone
otherVars == <<daemonVars, clientVars>>

vars == <<wireVars, daemonVars, clientVars>>

MaxConns == MaxLines + 1

ConnIds == 1..MaxConns

NoConn == [c2s |-> <<>>, s2c |-> <<>>, cliOpen |-> FALSE, srvOpen |-> FALSE]

NewConn == [c2s |-> <<>>, s2c |-> <<>>, cliOpen |-> TRUE, srvOpen |-> TRUE]

NoExec == [chunk |-> <<>>, log |-> <<>>, raised |-> FALSE, out |-> <<>>,
           n |-> 0]

NoFrame == [hdr |-> <<>>, body |-> <<>>, text |-> <<>>, n |-> 0]

interactive == mode = "interactive"

(***************************************************************************)
(* targetclid: the accept loop of main and the worker client_thread.       *)
(***************************************************************************)
\* connection, _ = sock.accept(); thread.start()
DaemonAccept ==
    /\ mpc = "accept"
    /\ accepted < nconn
    /\ accepted' = accepted + 1
    /\ wconn' = accepted + 1
    /\ wpc' = "recv"
    /\ mpc' = "join"
    /\ UNCHANGED <<connVars, partials, data, woutput, cwd, objs, lastExec,
                   lastFrame>>
    /\ UNCHANGED <<sessVars, callVars, otherVars>>

\* thread.join() returns
DaemonJoin ==
    /\ mpc = "join"
    /\ wpc \in {"done", "dead"}
    /\ mpc' = "accept"
    /\ wpc' = "none"
    \* the locals of the thread are gone; its connection is over
    /\ data' = <<>>
    /\ woutput' = <<>>
    /\ partials' = 0
    /\ lastExec' = NoExec
    /\ lastFrame' = NoFrame
    /\ conn' = [conn EXCEPT ![wconn] = NoConn]
    /\ UNCHANGED <<nconn, accepted, wconn, cwd, objs>>
    /\ UNCHANGED <<sessVars, callVars, otherVars>>

\* recv waits for data for ever on a connection the client has closed
EndOfStream_Blocks(c) == FALSE

\* connection.recv returns b'': nothing is left to read and the client has
\* closed the connection
EndOfStream(c) == c.c2s = <<>> /\ ~c.cliOpen

\* only a chunk that is the sentinel and nothing else ends the connection
IsSentinelChunk_Exact(chunk) == chunk = Sentinel

\* b'-END@OF@DATA-' in data
IsSentinelChunk(chunk) == Contains(chunk, Sentinel)

\* the else branch of client_thread: redirect the console, run the command
\* lines of the chunk, restore the console and read the captured output back
WorkerExec(chunk) ==
    LET r == ExecuteChunk(chunk, cwd, objs)
    IN  /\ cwd' = r.cwd
        /\ objs' = r.objs
        /\ woutput' = r.out
        /\ lastExec' = [chunk |-> chunk, log |-> r.log, raised |-> r.raised,
                        out |-> r.out, n |-> lastExec.n + 1]
        /\ wpc' = "send"

\* data = connection.recv(65535), the test for the sentinel, and for any
\* other chunk its execution
WorkerRecv ==
    /\ wpc = "recv"
    /\ LET c == conn[wconn]
       IN  \/ /\ c.c2s # <<>>
              /\ \E k \in 1..Min(RequestChunk, Len(c.c2s)) :
                    /\ k < Len(c.c2s) => partials < MaxPartial
                    /\ partials' = IF k < Len(c.c2s)
                                   THEN partials + 1 ELSE partials
                    /\ data' = Take(c.c2s, k)
                    /\ IF IsSentinelChunk(Take(c.c2s, k))
                       THEN /\ conn' = [conn EXCEPT ![wconn] =
                                            [c EXCEPT !.c2s = <<>>,
                                                      !.srvOpen = FALSE]]
                            /\ wpc' = "done"
                            /\ UNCHANGED <<woutput, cwd, objs, lastExec>>
                       ELSE /\ conn' = [conn EXCEPT
                                            ![wconn].c2s = Drop(c.c2s, k)]
                            /\ WorkerExec(Take(c.c2s, k))
           \/ /\ EndOfStream(c)
              /\ data' = <<>>
              /\ WorkerExec(<<>>)
              /\ UNCHANGED <<conn, partials>>
    /\ UNCHANGED <<nconn, mpc, accepted, wconn, lastFrame>>
    /\ UNCHANGED <<sessVars, callVars, otherVars>>

\* var = struct.pack('i', len(output)); connection.sendall(var)
WorkerSend ==
    /\ wpc = "send"
    /\ IF conn[wconn].cliOpen
       THEN /\ conn' = [conn EXCEPT ![wconn].s2c = @ \o Header(woutput)]
            /\ lastFrame' = [hdr |-> Header(woutput), body |-> <<>>,
                             text |-> woutput, n |-> lastFrame.n + 1]
            /\ wpc' = IF Len(woutput) # 0 THEN "send_body" ELSE "recv"
       ELSE \* BrokenPipeError ends the thread
            /\ wpc' = "dead"
            /\ UNCHANGED <<conn, lastFrame>>
    /\ UNCHANGED <<nconn, mpc, accepted, wconn, partials, data, woutput, cwd,
                   objs, lastExec>>
    /\ UNCHANGED <<sessVars, callVars, otherVars>>

\* if len(output): connection.sendall(output.encode())
WorkerSendBody ==
    /\ wpc = "send_body"
    /\ IF conn[wconn].cliOpen
       THEN /\ conn' = [conn EXCEPT ![wconn].s2c = @ \o Body(woutput)]
            /\ lastFrame' = [lastFrame EXCEPT !.body = Body(woutput)]
            /\ wpc' = "recv"
       ELSE \* BrokenPipeError ends the thread
            /\ wpc' = "dead"
            /\ UNCHANGED <<conn, lastFrame>>
    /\ UNCHANGED <<nconn, mpc, accepted, wconn, partials, data, woutput, cwd,
                   objs, lastExec>>
    /\ UNCHANGED <<sessVars, callVars, otherVars>>

\* the daemon process is ended from outside while a worker serves its
\* connection: its threads end and the kernel closes its sockets; what was
\* sent stays readable by the client
DaemonKilled ==
    /\ mpc = "join"
    /\ wpc \in {"recv", "send", "send_body"}
    /\ mpc' = "killed"
    /\ wpc' = "killed"
    /\ conn' = [conn EXCEPT ![wconn].srvOpen = FALSE, ![wconn].c2s = <<>>]
    /\ UNCHANGED <<nconn, accepted, wconn, partials, data, woutput, cwd, objs,
                   lastExec, lastFrame>>
    /\ UNCHANGED <<sessVars, callVars, otherVars>>

(***************************************************************************)
(* targetcli: call_daemon.                                                 *)
(***************************************************************************)
\* "cd " in req
HasCd(r) == \E i \in 1..Len(r) : r[i] = "cd "

\* get_pwd as call_daemon sets it
WantPwd(r, inter) == inter /\ (r = <<>> \/ HasCd(r))

\* the non-interactive request is sent as it was given
BuildRequest_NoReset(r, inter) ==
    IF inter
    THEN IF r = <<>> THEN Pwd
         ELSE IF HasCd(r) THEN r \o <<Delim>> \o Pwd
         ELSE r
    ELSE r

\* the request call_daemon sends for the argument req
BuildRequest(r, inter) ==
    IF inter
    THEN IF r = <<>> THEN Pwd
         ELSE IF HasCd(r) THEN r \o <<Delim>> \o Pwd
         ELSE r
    ELSE CdRoot \o <<Delim>> \o r

CrashPcs == {"struct.error", "UnicodeDecodeError", "BrokenPipeError"}

\* an uncaught exception ends the client process
ClientCrash(exception) ==
    /\ cpc' = exception
    /\ spc' = "exited"
    /\ cexit' = 1
    /\ conn' = [conn EXCEPT ![nconn].cliOpen = FALSE, ![nconn].s2c = <<>>]

\* the client process is ended from outside in the middle of a call: the
\* kernel closes its end of the connection and no sentinel is sent
ClientKilled ==
    /\ cpc \in {"send", "recv_hdr", "recv_body", "output"}
    /\ cpc' = "killed"
    /\ spc' = "exited"
    /\ cexit' = 137
    /\ conn' = [conn EXCEPT ![nconn].cliOpen = FALSE, ![nconn].s2c = <<>>]
    /\ UNCHANGED <<nconn, req, get_pwd, amount_expected, amount_received,
                   empty_reads, output, path, printed>>
    /\ UNCHANGED <<mode, argv, prompt_path, inputs, nlines, tree0>>
    /\ UNCHANGED <<workerVars, otherVars>>

\* sock = socket.socket(...); sock.connect(socket_path)
ClientConnect ==
    /\ cpc = "connect"
    /\ nconn < MaxConns
    /\ nconn' = nconn + 1
    /\ conn' = [conn EXCEPT ![nconn + 1] = NewConn]
    /\ cpc' = "send"
    /\ UNCHANGED <<req, get_pwd, amount_expected, amount_received, empty_reads, output,
                   path, printed>>
    /\ UNCHANGED <<workerVars, sessVars, otherVars>>

\* build the request and sock.sendall(req.encode())
ClientSend ==
    /\ cpc = "send"
    /\ get_pwd' = WantPwd(req, interactive)
    /\ req' = BuildRequest(req, interactive)
    /\ conn' = [conn EXCEPT ![nconn].c2s = @ \o BuildRequest(req, interactive)]
    /\ cpc' = "recv_hdr"
    /\ UNCHANGED <<nconn, amount_expected, amount_received, empty_reads, output, path,
                   printed>>
    /\ UNCHANGED <<workerVars, sessVars, otherVars>>

\* var = sock.recv(4); amount_expected = struct.unpack('i', var)[0]
ClientRecvHeader ==
    /\ cpc = "recv_hdr"
    /\ LET c == conn[nconn]
       IN  \/ /\ c.s2c # <<>>
              /\ \E k \in 1..Min(HeaderLen, Len(c.s2c)) :
                    IF k = HeaderLen
                    THEN /\ amount_expected' = Unpack(Take(c.s2c, k))
                         /\ amount_received' = 0
                         /\ empty_reads' = 0
                         /\ output' = <<>>
                         /\ path' = <<>>
                         /\ conn' = [conn EXCEPT ![nconn].s2c = Drop(c.s2c, k)]
                         /\ cpc' = IF 0 < Unpack(Take(c.s2c, k))
                                   THEN "recv_body" ELSE "output"
                         /\ UNCHANGED <<spc, cexit>>
                    ELSE \* unpack requires a buffer of 4 bytes
                         /\ ClientCrash("struct.error")
                         /\ UNCHANGED <<amount_expected, amount_received, empty_reads,
                                        output, path>>
           \/ /\ c.s2c = <<>>
              /\ ~c.srvOpen
              /\ ClientCrash("struct.error")
              /\ UNCHANGED <<amount_expected, amount_received, empty_reads, output, path>>
    /\ UNCHANGED <<nconn, req, get_pwd, printed>>
    /\ UNCHANGED <<mode, argv, prompt_path, inputs, nlines, tree0>>
    /\ UNCHANGED <<workerVars, otherVars>>

\* one round of: data = sock.recv(1024); data = data.decode();
\* amount_received += len(data); output += data.  At the end of the stream
\* recv returns b'' and the round changes nothing but the count of such reads
ClientRecvBody ==
    /\ cpc = "recv_body"
    /\ LET c == conn[nconn]
       IN  \/ /\ c.s2c # <<>>
              /\ \E k \in 1..Min(BodyChunk, Len(c.s2c)) :
                    LET d == Decode(Take(c.s2c, k))
                    IN  IF d.ok
                        THEN /\ amount_received' = amount_received + Len(d.text)
                             /\ output' = output \o d.text
                             /\ conn' = [conn EXCEPT
                                            ![nconn].s2c = Drop(c.s2c, k)]
                             /\ cpc' = IF amount_received + Len(d.text)
                                           < amount_expected
                                       THEN "recv_body" ELSE "output"
                             /\ UNCHANGED <<spc, cexit, empty_reads>>
                        ELSE /\ ClientCrash("UnicodeDecodeError")
                             /\ UNCHANGED <<amount_received, empty_reads,
                                            output>>
           \/ /\ c.s2c = <<>>
              /\ ~c.srvOpen
              /\ empty_reads < MaxEmptyReads
              /\ empty_reads' = empty_reads + 1
              /\ UNCHANGED <<amount_received, output, conn, cpc, spc, cexit>>
    /\ UNCHANGED <<nconn, req, get_pwd, amount_expected, path, printed>>
    /\ UNCHANGED <<mode, argv, prompt_path, inputs, nlines, tree0>>
    /\ UNCHANGED <<workerVars, otherVars>>

\* what call_daemon prints of the lines when get_pwd is set: all but the last
RECURSIVE PrintLines(_)
PrintLines(lines) ==
    IF Len(lines) <= 1 THEN <<>>
    ELSE Head(lines) \o <<"nl">> \o PrintLines(Tail(lines))

\* the output is printed, or split into printed lines and the path; then
\* sock.send(b'-END@OF@DATA-'); sock.close(); return path
ClientEnd ==
    /\ cpc = "output"
    /\ IF get_pwd
       THEN LET lines == SplitLines(output)
            IN  /\ path' = IF lines = <<>> THEN <<>> ELSE lines[Len(lines)]
                /\ printed' = PrintLines(lines)
       ELSE /\ printed' = output
            /\ path' = path
    /\ IF conn[nconn].srvOpen
       THEN /\ conn' = [conn EXCEPT ![nconn].c2s = @ \o Sentinel,
                                    ![nconn].cliOpen = FALSE,
                                    ![nconn].s2c = <<>>]
            /\ cpc' = "return"
            /\ UNCHANGED <<spc, cexit>>
       ELSE ClientCrash("BrokenPipeError")
    /\ UNCHANGED <<nconn, req, get_pwd, amount_expected, amount_received,
                   empty_reads, output>>
    /\ UNCHANGED <<mode, argv, prompt_path, inputs, nlines, tree0>>
    /\ UNCHANGED <<workerVars, otherVars>>

(***************************************************************************)
(* targetcli: switch_to_daemon.                                            *)
(***************************************************************************)
ExitUpper == <<"EXIT">>

\* a command line that creates an object named cd: its text has 'cd ' in it
MkCd == <<"mk ", "cd ">>

\* the command lines the user enters
UserLines == {CdSub, Pwd, Mk("x"), Rm("x"), MkCd}

\* the command lines a batch on standard input is made of
BatchLines == {CdSub, Mk("x"), Rm("x")}

\* the keyword is compared as it was typed
IsExit_CaseSensitive(command) == command = ExitCmd

\* command.lower() == "exit"
IsExit(command) == command \in {ExitCmd, ExitUpper}

\* call_daemon(shell, r, interactive) is entered from the call site `site`
Call(r, site) ==
    /\ req' = r
    /\ cpc' = "connect"
    /\ spc' = site
    /\ printed' = <<>>
    /\ UNCHANGED <<get_pwd, amount_expected, amount_received, empty_reads, output, path>>

\* from the test of sys.argv to the first input(): the one-shot call, the
\* initial pwd call of an interactive session, or nothing in batch mode
SessionStart ==
    /\ spc = "start"
    /\ CASE mode = "oneshot" ->
              /\ Call(argv, "oneshot_call")
              /\ UNCHANGED prompt_path
         [] mode = "interactive" ->
              /\ Call(<<>>, "initpwd_call")
              /\ prompt_path' = RootPath
         [] mode = "batch" ->
              /\ spc' = "input"
              /\ prompt_path' = RootPath
              /\ UNCHANGED callVars
    /\ UNCHANGED <<mode, argv, inputs, nlines, cexit, tree0>>
    /\ UNCHANGED <<connVars, workerVars, otherVars>>

\* call_daemon has returned to its call site
SessionReturn ==
    /\ cpc = "return"
    /\ cpc' = "idle"
    /\ CASE spc \in {"oneshot_call", "batch_call"} ->
              \* sys.exit(0)
              /\ spc' = "exited"
              /\ cexit' = 0
              /\ UNCHANGED <<prompt_path, printed>>
         [] spc = "initpwd_call" ->
              /\ prompt_path' = path
              /\ spc' = "input"
              /\ UNCHANGED <<cexit, printed>>
         [] spc = "line_call" ->
              /\ spc' = "input"
              /\ IF path # <<>>
                 THEN IF path[1] = "/"
                      THEN /\ prompt_path' = path
                           /\ UNCHANGED printed
                      ELSE /\ printed' = printed \o path \o <<"nl">>
                           /\ UNCHANGED prompt_path
                 ELSE UNCHANGED <<prompt_path, printed>>
              /\ UNCHANGED cexit
    \* the locals of call_daemon are gone
    /\ req' = <<>>
    /\ get_pwd' = FALSE
    /\ amount_expected' = 0
    /\ amount_received' = 0
    /\ empty_reads' = 0
    /\ output' = <<>>
    /\ path' = <<>>
    /\ UNCHANGED <<mode, argv, inputs, nlines, tree0>>
    /\ UNCHANGED <<connVars, workerVars, otherVars>>

\* every line of a batch is sent as it is entered
BatchFlush_EveryLine(command) == TRUE

\* `if real_exit:` in the non-interactive branch: the batch is sent
BatchFlush(command) == IsExit(command)

\* one pass of the while loop: command = input(prompt) and what follows
SessionInput ==
    /\ spc = "input"
    /\ \E command \in (IF interactive THEN UserLines ELSE BatchLines)
                        \cup {<<>>, ExitCmd, ExitUpper} :
          /\ (~IsExit(command) /\ command # <<>>) => nlines < MaxLines
          /\ nlines' = IF IsExit(command) \/ command = <<>>
                       THEN nlines ELSE nlines + 1
          /\ IF ~IsExit(command) /\ command = <<>>
             THEN \* continue
                  UNCHANGED <<spc, inputs, cexit, callVars>>
             ELSE IF ~interactive
             THEN /\ inputs' = Append(inputs, command)
                  /\ IF BatchFlush(command)
                     THEN Call(JoinLines(Append(inputs, command)), "batch_call")
                     ELSE UNCHANGED <<spc, callVars>>
                  /\ UNCHANGED cexit
             ELSE IF IsExit(command)
                  THEN \* break; sys.exit(0)
                       /\ spc' = "exited"
                       /\ cexit' = 0
                       /\ UNCHANGED <<inputs, callVars>>
                  ELSE /\ Call(command, "line_call")
                       /\ UNCHANGED <<inputs, cexit>>
    /\ UNCHANGED <<mode, argv, prompt_path, tree0>>
    /\ UNCHANGED <<connVars, workerVars, otherVars>>

(***************************************************************************)
(* targetclid as a process: TargetCLI.__init__, main, the signal handler.  *)
(***************************************************************************)
Daemons == 1..NDaemons

WorkerIds == 1..MaxAccepts

\* the positional parameters signal_handler takes besides self
HandlerParams == 0

\* the arguments the interpreter calls a registered handler with
SignalArgs == 2

Alive(d) == {w \in WorkerIds : workers[d][w] \in {"serving", "executing"}}

\* the lock attempt never fails
PidLockFree_Always(d) == TRUE

\* fcntl(F_SETLK, F_WRLCK) succeeds unless another process holds the lock
PidLockFree(d) == pidLock \ {d} = {}

\* the process ends: the kernel drops its lock and closes its descriptors,
\* its threads and what main counted are gone
DaemonExit(d, status, msg) ==
    /\ dpc' = [dpc EXCEPT ![d] = "exited"]
    /\ dexit' = [dexit EXCEPT ![d] = status]
    /\ dmsg' = [dmsg EXCEPT ![d] = msg]
    /\ dfrom' = [dfrom EXCEPT ![d] = dpc[d]]
    /\ pidLock' = pidLock \ {d}
    /\ sock' = [sock EXCEPT ![d] = IF @ = "none" THEN "none" ELSE "closed"]
    /\ workers' = [workers EXCEPT ![d] = [w \in WorkerIds |-> "none"]]
    /\ naccept' = [naccept EXCEPT ![d] = 0]
    /\ con_stdout' = [con_stdout EXCEPT ![d] = "saved"]

\* main up to the open of the PID file: the fields are set and the handler
\* is registered for SIGINT, SIGTERM and SIGHUP
DaemonStart(d) ==
    /\ dpc[d] = "off"
    /\ dpc' = [dpc EXCEPT ![d] = "open"]
    /\ UNCHANGED <<pidLock, NoSignal, sock, dtree, dtouch, dmsg, dexit, dfrom,
                   listen_pid, dsignal, workers, naccept, con_stdout>>
    /\ UNCHANGED <<wireVars, clientVars>>

\* self.pfd = open(self.pid_file, 'w+')
OpenPidFile(d) ==
    /\ dpc[d] = "open"
    /\ \/ /\ dpc' = [dpc EXCEPT ![d] = "lock"]
          /\ UNCHANGED <<pidLock, sock, dmsg, dexit, dfrom, workers, naccept,
                         con_stdout>>
       \/ DaemonExit(d, 1, "opening pidfile failed")
    /\ UNCHANGED <<NoSignal, dtree, dtouch, listen_pid, dsignal>>
    /\ UNCHANGED <<wireVars, clientVars>>

try_pidfile_lock(d) ==
    /\ dpc[d] = "lock"
    /\ IF PidLockFree(d)
       THEN /\ pidLock' = pidLock \cup {d}
            /\ dpc' = [dpc EXCEPT ![d] = "tree"]
            /\ UNCHANGED <<sock, dmsg, dexit, dfrom, workers, naccept,
                           con_stdout>>
       ELSE DaemonExit(d, 1, "targetclid is already running...")
    /\ UNCHANGED <<NoSignal, dtree, dtouch, listen_pid, dsignal>>
    /\ UNCHANGED <<wireVars, clientVars>>

\* root_node = UIRoot(...); root_node.refresh()
TreeInit(d) ==
    /\ dpc[d] = "tree"
    /\ \/ /\ dtree' = [dtree EXCEPT ![d] = TRUE]
          /\ dpc' = [dpc EXCEPT ![d] = "sock"]
          /\ UNCHANGED <<pidLock, sock, dmsg, dexit, dfrom, workers, naccept,
                         con_stdout>>
       \/ /\ DaemonExit(d, 1, "tree error")
          /\ UNCHANGED dtree
    /\ UNCHANGED <<NoSignal, dtouch, listen_pid, dsignal>>
    /\ UNCHANGED <<wireVars, clientVars>>

\* the environment is not looked at
Inherited_Never(d) == FALSE

\* if getenv('LISTEN_PID'):
Inherited(d) == listen_pid[d]

\* main from getenv('LISTEN_PID') to the accept loop
SocketSetup(d) ==
    /\ dpc[d] = "sock"
    /\ IF Inherited(d)
       THEN \/ /\ sock' = [sock EXCEPT ![d] = "inherited"]
               /\ dpc' = [dpc EXCEPT ![d] = "accept"]
               /\ UNCHANGED <<pidLock, dmsg, dexit, dfrom, workers,
                           naccept, dtouch, con_stdout>>
            \/ /\ DaemonExit(d, 1, "fromfd failed")
               /\ UNCHANGED dtouch
       ELSE \/ /\ sock' = [sock EXCEPT ![d] = "listening"]
               /\ dtouch' = [dtouch EXCEPT ![d] = <<"unlink", "bind", "listen">>]
               /\ dpc' = [dpc EXCEPT ![d] = "accept"]
               /\ UNCHANGED <<pidLock, dmsg, dexit, dfrom, workers, naccept,
                              con_stdout>>
            \/ /\ DaemonExit(d, 1, "bind failed")
               /\ dtouch' = [dtouch EXCEPT ![d] = <<"unlink", "bind">>]
    /\ UNCHANGED <<NoSignal, dtree, listen_pid, dsignal>>
    /\ UNCHANGED <<wireVars, clientVars>>

\* the loop test, then sock.accept(): the thread is started, or the accept
\* fails and the loop is left
Accept(d) ==
    /\ dpc[d] = "accept"
    /\ IF ~NoSignal[d]
       THEN \* the loop test fails, or accept fails on the closed socket
            /\ dpc' = [dpc EXCEPT ![d] = "release"]
            /\ UNCHANGED <<dmsg, naccept, workers>>
       ELSE \/ /\ sock[d] \in {"listening", "inherited"}
               /\ naccept[d] < MaxAccepts
               /\ naccept' = [naccept EXCEPT ![d] = @ + 1]
               /\ workers' = [workers EXCEPT ![d][naccept[d] + 1] = "serving"]
               /\ dpc' = [dpc EXCEPT ![d] = "join"]
               /\ UNCHANGED dmsg
            \/ \* OSError
               /\ dmsg' = [dmsg EXCEPT ![d] = "accept failed"]
               /\ dpc' = [dpc EXCEPT ![d] = "release"]
               /\ UNCHANGED <<naccept, workers>>
    /\ UNCHANGED <<pidLock, NoSignal, sock, dtree, dtouch, dexit, dfrom,
                   listen_pid, dsignal, con_stdout>>
    /\ UNCHANGED <<wireVars, clientVars>>

\* thread.join() returns and the loop test is made
ThreadJoin(d) ==
    /\ dpc[d] = "join"
    /\ workers[d][naccept[d]] = "ended"
    /\ dpc' = [dpc EXCEPT ![d] = IF NoSignal[d] THEN "accept" ELSE "release"]
    /\ UNCHANGED <<pidLock, NoSignal, sock, dtree, dtouch, dmsg, dexit, dfrom,
                   listen_pid, dsignal, workers, naccept, con_stdout>>
    /\ UNCHANGED <<wireVars, clientVars>>

\* client_thread seen from the process: the sentinel arrives (or the
\* connection fails) and the thread ends
WorkerProgress(d, w) ==
    /\ dpc[d] # "exited"
    /\ workers[d][w] = "serving"
    /\ workers' = [workers EXCEPT ![d][w] = "ended"]
    /\ UNCHANGED <<dpc, pidLock, NoSignal, sock, dtree, dtouch, dmsg, dexit,
                   dfrom, listen_pid, dsignal, naccept, con_stdout>>
    /\ UNCHANGED <<wireVars, clientVars>>

\* client_thread seen from the process: a chunk without the sentinel has
\* arrived; self.con._stdout = self.con._stderr = f, and the command lines
\* are being run
WorkerRedirect(d, w) ==
    /\ dpc[d] # "exited"
    /\ workers[d][w] = "serving"
    /\ workers' = [workers EXCEPT ![d][w] = "executing"]
    /\ con_stdout' = [con_stdout EXCEPT ![d] = "capture"]
    /\ UNCHANGED <<dpc, pidLock, NoSignal, sock, dtree, dtouch, dmsg, dexit,
                   dfrom, listen_pid, dsignal, naccept>>
    /\ UNCHANGED <<wireVars, clientVars>>

\* the command lines have returned or raised (except Exception); then
\* self.con._stdout = self.con_stdout_; self.con._stderr = self.con_stderr_,
\* the response is sent and the thread waits for the next chunk
WorkerRestore(d, w) ==
    /\ dpc[d] # "exited"
    /\ workers[d][w] = "executing"
    /\ workers' = [workers EXCEPT ![d][w] = "serving"]
    /\ con_stdout' = [con_stdout EXCEPT ![d] = "saved"]
    /\ UNCHANGED <<dpc, pidLock, NoSignal, sock, dtree, dtouch, dmsg, dexit,
                   dfrom, listen_pid, dsignal, naccept>>
    /\ UNCHANGED <<wireVars, clientVars>>

\* the message of release_pidfile_lock when the unlock raises
UnlockFailed == "fcntl(UNLCK) on pidfile failed"

\* release_pidfile_lock and the exit of main
release_pidfile_lock(d) ==
    /\ dpc[d] = "release"
    /\ \/ IF ~NoSignal[d]
          THEN DaemonExit(d, 0, "Signal received, quiting gracefully!")
          ELSE DaemonExit(d, 1, dmsg[d])
       \/ DaemonExit(d, 1, UnlockFailed)
    /\ UNCHANGED <<NoSignal, dtree, dtouch, listen_pid, dsignal>>
    /\ UNCHANGED <<wireVars, clientVars>>

\* SIGINT, SIGTERM or SIGHUP is delivered: the interpreter calls the
\* registered handler in the main thread with (signum, frame)
Signal(d) ==
    /\ dpc[d] \notin {"off", "exited"}
    /\ dsignal' = [dsignal EXCEPT ![d] = @ \cup {dpc[d]}]
    /\ IF HandlerParams = SignalArgs
       THEN \* signal_handler: the flag is cleared and the socket closed
            /\ NoSignal' = [NoSignal EXCEPT ![d] = FALSE]
            /\ sock' = [sock EXCEPT ![d] = IF @ = "none" THEN @ ELSE "closed"]
            /\ UNCHANGED <<dpc, pidLock, dmsg, dexit, dfrom, workers, naccept,
                           con_stdout>>
       ELSE \* TypeError is raised where the main thread is
            /\ UNCHANGED NoSignal
            /\ CASE dpc[d] = "join" ->
                      \* except Exception: display, and the loop goes on
                      /\ dmsg' = [dmsg EXCEPT ![d] = "TypeError"]
                      /\ dpc' = [dpc EXCEPT ![d] =
                                    IF NoSignal[d] THEN "accept" ELSE "release"]
                      /\ UNCHANGED <<pidLock, sock, dexit, dfrom, workers, naccept,
                                     con_stdout>>
                 [] dpc[d] \in {"tree", "release"} ->
                      \* except Exception: display, close, sys.exit(1)
                      DaemonExit(d, 1, "TypeError")
                 [] OTHER ->
                      \* not caught: traceback
                      DaemonExit(d, 1, "traceback")
    /\ UNCHANGED <<dtree, dtouch, listen_pid>>
    /\ UNCHANGED <<wireVars, clientVars>>

(***************************************************************************)
(* targetcli as a process: main of targetcli_shell, with the exchange with *)
(* the daemon taken as one step.                                           *)
(***************************************************************************)
Clients == 1..NClients

ArgKinds == {"none", "cmd", "help", "version", "disable"}

\* the positions at which a process holds the lock on the lock file
LockedPcs == {"main", "daemon", "tree", "oneshot", "shell"}

\* a shared lock: it never waits for another client
OpLockFree_Shared(c) == TRUE

\* fcntl.flock(lkfd, LOCK_EX) returns once no other process holds the lock
OpLockFree(c) == opLock \ {c} = {}

\* the lock outlives the process that held it
ClientExit_KeepsLock(c, status) ==
    /\ kpc' = [kpc EXCEPT ![c] = "exited"]
    /\ kexit' = [kexit EXCEPT ![c] = status]
    /\ kfrom' = [kfrom EXCEPT ![c] = kpc[c]]
    /\ UNCHANGED opLock

\* the process ends: the kernel closes the descriptor and drops the lock
ClientExit(c, status) ==
    /\ kpc' = [kpc EXCEPT ![c] = "exited"]
    /\ kexit' = [kexit EXCEPT ![c] = status]
    /\ kfrom' = [kfrom EXCEPT ![c] = kpc[c]]
    /\ opLock' = opLock \ {c}

\* the process is started with some arguments; the shell object is built
ClientStart(c) ==
    /\ kpc[c] = "off"
    /\ \E a \in ArgKinds : kargs' = [kargs EXCEPT ![c] = a]
    /\ kpc' = [kpc EXCEPT ![c] = "open"]
    /\ UNCHANGED <<opLock, auto_use_daemon, kreleased, klocal, kexit, kfrom,
                   kmsg>>
    /\ UNCHANGED <<wireVars, daemonVars>>

\* lkfd = open(lock_file, 'w+')
OpenLockFile(c) ==
    /\ kpc[c] = "open"
    /\ \/ /\ kpc' = [kpc EXCEPT ![c] = "lock"]
          /\ UNCHANGED <<opLock, kexit, kfrom>>
       \/ ClientExit(c, 1)
    /\ UNCHANGED <<kargs, kmsg, auto_use_daemon, kreleased, klocal>>
    /\ UNCHANGED <<wireVars, daemonVars>>

try_op_lock(c) ==
    /\ kpc[c] = "lock"
    /\ \/ /\ OpLockFree(c)
          /\ opLock' = opLock \cup {c}
          /\ kpc' = [kpc EXCEPT ![c] = "main"]
          /\ UNCHANGED <<kexit, kfrom>>
       \/ \* flock raises
          ClientExit(c, 1)
    /\ UNCHANGED <<kargs, kmsg, auto_use_daemon, kreleased, klocal>>
    /\ UNCHANGED <<wireVars, daemonVars>>

\* main from use_daemon = False to the choice of the path
MainDecide(c) ==
    /\ kpc[c] = "main"
    /\ CASE kargs[c] = "help" -> ClientExit(c, 255)
         [] kargs[c] = "version" -> ClientExit(c, 0)
         [] OTHER ->
              /\ kpc' = [kpc EXCEPT ![c] =
                            IF auto_use_daemon /\ kargs[c] # "disable"
                            THEN "daemon" ELSE "tree"]
              /\ UNCHANGED <<opLock, kexit, kfrom>>
    /\ UNCHANGED <<kargs, kmsg, auto_use_daemon, kreleased, klocal>>
    /\ UNCHANGED <<wireVars, daemonVars>>

\* the hint call_daemon displays when sock.connect fails
Hint == "please make sure targetclid daemon is running"

\* a failing connect is answered by the local path
DaemonSession_Fallback(c) ==
    /\ kpc[c] = "daemon"
    /\ \/ /\ ClientExit(c, 0)
          /\ UNCHANGED kmsg
       \/ /\ kmsg' = [kmsg EXCEPT ![c] = Hint]
          /\ kpc' = [kpc EXCEPT ![c] = "tree"]
          /\ UNCHANGED <<opLock, kexit, kfrom>>
    /\ UNCHANGED <<kargs, auto_use_daemon, kreleased, klocal>>
    /\ UNCHANGED <<wireVars, daemonVars>>

\* switch_to_daemon: it ends in sys.exit(0); or sock.connect fails in some
\* call_daemon, the hint is displayed and the process ends in sys.exit(1);
\* or another step of the exchange fails and ends the process
DaemonSession(c) ==
    /\ kpc[c] = "daemon"
    /\ \/ /\ ClientExit(c, 0)
          /\ UNCHANGED kmsg
       \/ /\ kmsg' = [kmsg EXCEPT ![c] = Hint]
          /\ ClientExit(c, 1)
       \/ /\ ClientExit(c, 1)
          /\ UNCHANGED kmsg
    /\ UNCHANGED <<kargs, auto_use_daemon, kreleased, klocal>>
    /\ UNCHANGED <<wireVars, daemonVars>>

\* root_node = UIRoot(shell, ...); root_node.refresh()
LocalTree(c) ==
    /\ kpc[c] = "tree"
    /\ \/ /\ klocal' = [klocal EXCEPT ![c] = TRUE]
          /\ kpc' = [kpc EXCEPT ![c] =
                        IF kargs[c] # "none" THEN "oneshot" ELSE "shell"]
          /\ UNCHANGED <<opLock, kexit, kfrom>>
       \/ /\ ClientExit(c, 255)
          /\ UNCHANGED klocal
    /\ UNCHANGED <<kargs, kmsg, auto_use_daemon, kreleased>>
    /\ UNCHANGED <<wireVars, daemonVars>>

\* the local one-shot ends with status 0 whatever the command does
LocalStatus_Zero(cmd, dir, objects) == 0

\* the exit status of the local one-shot path of main for the command line
\* cmd: shell.run_cmdline inside try, sys.exit(1) when it raises, else
\* sys.exit(0)
LocalStatus(cmd, dir, objects) ==
    IF RunCmdline(cmd, dir, objects).raised THEN 1 ELSE 0

\* the preference is changed for this run only
LocalOneshot_NoPersist(c) ==
    /\ kpc[c] = "oneshot"
    /\ \E status \in {0, 1} : ClientExit(c, status)
    /\ UNCHANGED <<kargs, kmsg, auto_use_daemon, kreleased, klocal>>
    /\ UNCHANGED <<wireVars, daemonVars>>

\* the command of the arguments is run locally; with the disable flag the
\* command is 'set global auto_use_daemon=false'
LocalOneshot(c) ==
    /\ kpc[c] = "oneshot"
    /\ \/ /\ auto_use_daemon' = IF kargs[c] = "disable"
                                THEN FALSE ELSE auto_use_daemon
          /\ ClientExit(c, 0)
       \/ \* the command raises
          /\ ClientExit(c, 1)
          /\ UNCHANGED auto_use_daemon
    /\ UNCHANGED <<kargs, kmsg, kreleased, klocal>>
    /\ UNCHANGED <<wireVars, daemonVars>>

\* the interactive shell ends, then release_op_lock and the end of main
LocalShell(c) ==
    /\ kpc[c] = "shell"
    /\ kreleased' = [kreleased EXCEPT ![c] = TRUE]
    /\ \E status \in {0, 1} : ClientExit(c, status)
    /\ UNCHANGED <<kargs, kmsg, auto_use_daemon, klocal>>
    /\ UNCHANGED <<wireVars, daemonVars>>

(***************************************************************************)
(* Specifications.  Each layer is checked with the other two at rest.      *)
(***************************************************************************)
DaemonsOff ==
    /\ dpc = [d \in Daemons |-> "off"]
    /\ pidLock = {}
    /\ NoSignal = [d \in Daemons |-> TRUE]
    /\ sock = [d \in Daemons |-> "none"]
    /\ dtree = [d \in Daemons |-> FALSE]
    /\ dtouch = [d \in Daemons |-> <<>>]
    /\ dmsg = [d \in Daemons |-> ""]
    /\ dexit = [d \in Daemons |-> -1]
    /\ workers = [d \in Daemons |-> [w \in WorkerIds |-> "none"]]
    /\ naccept = [d \in Daemons |-> 0]
    /\ dsignal = [d \in Daemons |-> {}]
    /\ dfrom = [d \in Daemons |-> ""]
    /\ con_stdout = [d \in Daemons |-> "saved"]

ClientsOff ==
    /\ kpc = [c \in Clients |-> "off"]
    /\ opLock = {}
    /\ kargs = [c \in Clients |-> "none"]
    /\ kreleased = [c \in Clients |-> FALSE]
    /\ klocal = [c \in Clients |-> FALSE]
    /\ kexit = [c \in Clients |-> -1]
    /\ kmsg = [c \in Clients |-> ""]
    /\ kfrom = [c \in Clients |-> ""]

CallIdle ==
    /\ cpc = "idle"
    /\ req = <<>>
    /\ get_pwd = FALSE
    /\ amount_expected = 0
    /\ amount_received = 0
    /\ empty_reads = 0
    /\ output = <<>>
    /\ path = <<>>
    /\ printed = <<>>

\* a client session starts against a daemon that waits in accept
InitWire ==
    /\ conn = [k \in ConnIds |-> NoConn]
    /\ nconn = 0
    /\ mpc = "accept"
    /\ accepted = 0
    /\ wpc = "none"
    /\ wconn = 0
    /\ partials = 0
    /\ data = <<>>
    /\ woutput = <<>>
    /\ cwd \in {RootPath, SubPath}
    /\ objs \in SUBSET Objs
    /\ lastExec = NoExec
    /\ lastFrame = NoFrame
    /\ spc = "start"
    /\ mode \in {"oneshot", "interactive", "batch"}
    /\ argv \in IF mode = "oneshot" THEN UserLines ELSE {<<>>}
    /\ prompt_path = <<>>
    /\ inputs = <<>>
    /\ nlines = 0
    /\ cexit = -1
    /\ tree0 = [cwd |-> cwd, objs |-> objs]
    /\ CallIdle
    /\ DaemonsOff
    /\ listen_pid = [d \in Daemons |-> FALSE]
    /\ ClientsOff
    /\ auto_use_daemon = TRUE

NextWire ==
    \/ SessionStart
    \/ SessionInput
    \/ SessionReturn
    \/ ClientConnect
    \/ ClientSend
    \/ ClientRecvHeader
    \/ ClientRecvBody
    \/ ClientEnd
    \/ DaemonAccept
    \/ DaemonJoin
    \/ WorkerRecv
    \/ WorkerSend
    \/ WorkerSendBody

SpecWire == InitWire /\ [][NextWire]_vars

\* the framing alone: the worker has captured some text for the request of
\* a client that now waits for the response
Texts == SeqsUpTo({"a", "eacute", "euro"}, MaxTextLen)

InitFrame ==
    /\ conn = [k \in ConnIds |-> IF k = 1 THEN NewConn ELSE NoConn]
    /\ nconn = 1
    /\ mpc = "join"
    /\ accepted = 1
    /\ wpc = "send"
    /\ wconn = 1
    /\ partials = 0
    /\ data = CdRoot \o <<Delim>> \o Pwd
    /\ woutput \in Texts
    /\ cwd = RootPath
    /\ objs = {}
    /\ lastExec = [chunk |-> data,
                   log |-> <<[cmd |-> CdRoot, out |-> <<>>],
                             [cmd |-> Pwd, out |-> woutput]>>,
                   raised |-> FALSE, out |-> woutput, n |-> 1]
    /\ lastFrame = NoFrame
    /\ spc = "oneshot_call"
    /\ mode = "oneshot"
    /\ argv = Pwd
    /\ prompt_path = <<>>
    /\ inputs = <<>>
    /\ nlines = 0
    /\ cexit = -1
    /\ tree0 = [cwd |-> cwd, objs |-> objs]
    /\ cpc = "recv_hdr"
    /\ req = data
    /\ get_pwd = FALSE
    /\ amount_expected = 0
    /\ amount_received = 0
    /\ empty_reads = 0
    /\ output = <<>>
    /\ path = <<>>
    /\ printed = <<>>
    /\ DaemonsOff
    /\ listen_pid = [d \in Daemons |-> FALSE]
    /\ ClientsOff
    /\ auto_use_daemon = TRUE

NextFrame ==
    \/ WorkerSend
    \/ WorkerSendBody
    \/ ClientRecvHeader
    \/ ClientRecvBody
    \/ ClientEnd
    \/ WorkerRecv
    \/ DaemonJoin

SpecFrame == InitFrame /\ [][NextFrame]_vars

\* no client session: the wire layer at rest
WireOff ==
    /\ conn = [k \in ConnIds |-> NoConn]
    /\ nconn = 0
    /\ mpc = "accept"
    /\ accepted = 0
    /\ wpc = "none"
    /\ wconn = 0
    /\ partials = 0
    /\ data = <<>>
    /\ woutput = <<>>
    /\ cwd = RootPath
    /\ objs = {}
    /\ lastExec = NoExec
    /\ lastFrame = NoFrame
    /\ spc = "exited"
    /\ mode = "oneshot"
    /\ argv = <<>>
    /\ prompt_path = <<>>
    /\ inputs = <<>>
    /\ nlines = 0
    /\ cexit = -1
    /\ tree0 = [cwd |-> cwd, objs |-> objs]
    /\ CallIdle

\* the daemon processes, each started with or without LISTEN_PID
InitDaemon ==
    /\ DaemonsOff
    /\ listen_pid \in [Daemons -> BOOLEAN]
    /\ WireOff
    /\ ClientsOff
    /\ auto_use_daemon = TRUE

NextDaemon ==
    \E d \in Daemons :
        \/ DaemonStart(d)
        \/ OpenPidFile(d)
        \/ try_pidfile_lock(d)
        \/ TreeInit(d)
        \/ SocketSetup(d)
        \/ Accept(d)
        \/ ThreadJoin(d)
        \/ \E w \in WorkerIds : WorkerProgress(d, w)
        \/ \E w \in WorkerIds : WorkerRedirect(d, w)
        \/ \E w \in WorkerIds : WorkerRestore(d, w)
        \/ release_pidfile_lock(d)
        \/ Signal(d)

SpecDaemon == InitDaemon /\ [][NextDaemon]_vars

\* the client processes, with either value of the saved preference
InitClient ==
    /\ ClientsOff
    /\ auto_use_daemon \in BOOLEAN
    /\ WireOff
    /\ DaemonsOff
    /\ listen_pid = [d \in Daemons |-> FALSE]

NextClient ==
    \E c \in Clients :
        \/ ClientStart(c)
        \/ OpenLockFile(c)
        \/ try_op_lock(c)
        \/ MainDecide(c)
        \/ DaemonSession(c)
        \/ LocalTree(c)
        \/ LocalOneshot(c)
        \/ LocalShell(c)

SpecClient == InitClient /\ [][NextClient]_vars

(***************************************************************************)
(* Properties.                                                             *)
(***************************************************************************)
AlreadyRunning == "targetclid is already running..."

\* C1: at most one daemon process holds the lock on the PID file; only a
\* holder gets past the lock attempt; a daemon whose attempt failed has
\* exited with a non-zero status without touching the socket path, without
\* a socket and without building the tree.
C1_SingleInstance ==
    /\ Cardinality(pidLock) <= 1
    /\ \A d \in Daemons :
          /\ dpc[d] \in {"tree", "sock", "accept", "join", "release"}
                => d \in pidLock
          /\ (dtree[d] \/ dtouch[d] # <<>> \/ sock[d] # "none")
                => dmsg[d] # AlreadyRunning
          /\ dmsg[d] = AlreadyRunning
                => /\ dpc[d] = "exited"
                   /\ dexit[d] > 0
                   /\ d \notin pidLock

\* a second daemon was refused while the first one holds the lock and serves
C1_Witness ==
    \E d1, d2 \in Daemons :
        /\ d1 # d2
        /\ d1 \in pidLock
        /\ dpc[d1] = "accept"
        /\ dmsg[d2] = AlreadyRunning
        /\ dexit[d2] = 1

\* C2: the critical sections of two client processes never overlap: a
\* process is past try_op_lock only while it holds the lock on the lock
\* file, and no two processes hold it, on the daemon path and on the local
\* path alike.
C2_MutualExclusion ==
    /\ Cardinality(opLock) <= 1
    /\ \A c \in Clients : kpc[c] \in LockedPcs => c \in opLock
    /\ \A c1, c2 \in Clients :
          (kpc[c1] \in LockedPcs /\ kpc[c2] \in LockedPcs) => c1 = c2

\* one client talks to the daemon while the other one waits in flock
C2_Witness ==
    \E c1, c2 \in Clients :
        /\ c1 # c2
        /\ kpc[c1] = "daemon"
        /\ kpc[c2] = "lock"

\* C3: the daemon serves one connection at a time: at most one worker is
\* alive, and the main loop is at accept only when no worker is alive.
C3_OneAtATime ==
    \A d \in Daemons :
        /\ Cardinality(Alive(d)) <= 1
        /\ dpc[d] = "accept" => Alive(d) = {}

ResponseRead == {"output", "return"}

\* C4: whatever the partial reads of the body, the client decodes the text
\* the server encoded: no read makes the decoding fail, and the text the
\* client has once the response is read is the text of the frame.
C4_RoundTrip ==
    /\ cpc # "UnicodeDecodeError"
    /\ (cpc \in ResponseRead /\ lastFrame.n > 0) => output = lastFrame.text

\* C5: the length header of a response is the number of bytes of the
\* UTF-8 encoded text, and the client stops reading when the bytes it has
\* read are as many as the header says.
C5_HeaderCountsBytes ==
    /\ lastFrame.n > 0
          => Unpack(lastFrame.hdr) = Len(Encode(lastFrame.text))
    /\ cpc \in ResponseRead => Len(Encode(output)) = amount_expected
    /\ cpc = "recv_body" => Len(Encode(output)) < amount_expected

\* C6: for an empty captured output the server sends the four zero bytes of
\* the header and no body; the client that read the length zero is never at
\* the read of the body, it goes on to the output and the sentinel.
C6_EmptyResponse ==
    /\ (lastFrame.n > 0 /\ lastFrame.text = <<>>)
          => /\ lastFrame.hdr = <<0, 0, 0, 0>>
             /\ lastFrame.body = <<>>
    /\ cpc = "recv_body" => amount_expected > 0
    /\ (lastFrame.n = 1 /\ lastFrame.text = <<>> /\ cpc # "recv_hdr"
        /\ cpc \notin CrashPcs)
          => /\ cpc \in ResponseRead
             /\ amount_expected = 0
             /\ output = <<>>
             /\ conn[wconn].s2c = <<>>

\* the client of an empty response has read it and is about to send the
\* sentinel
C6_Witness ==
    /\ lastFrame.n = 1
    /\ lastFrame.text = <<>>
    /\ lastFrame.hdr \o lastFrame.body = <<0, 0, 0, 0>>
    /\ cpc = "output"
    /\ amount_expected = 0

LogCmds(log) == [i \in 1..Len(log) |-> log[i].cmd]

RECURSIVE LogOut(_)
LogOut(log) == IF log = <<>> THEN <<>> ELSE Head(log).out \o LogOut(Tail(log))

\* the request of the batch session has been sent
BatchSent == spc = "batch_call" /\ cpc \in {"recv_hdr", "recv_body"} \cup ResponseRead

\* C7: the command lines of a request are run in the order they have in the
\* request (all of them when none raises), the captured output is what they
\* wrote in that order, and the batch request lists the lines in the order
\* they were entered.
C7_BatchOrder ==
    /\ lastExec.n > 0
          => /\ IsPrefix(LogCmds(lastExec.log), Split(lastExec.chunk))
             /\ ~lastExec.raised
                   => LogCmds(lastExec.log) = Split(lastExec.chunk)
             /\ lastExec.out = LogOut(lastExec.log)
                     \o (IF lastExec.raised THEN ErrText ELSE <<>>)
    /\ BatchSent => Split(req) = <<CdRoot>> \o inputs

\* a batch of two entered command lines was run as one request
C7_Witness ==
    /\ BatchSent
    /\ Len(inputs) = 3
    /\ lastExec.n = 1
    /\ lastExec.chunk = req
    /\ ~lastExec.raised
    /\ Len(lastExec.log) = 4
    /\ lastExec.out # <<>>

\* the objects after the command lines were sent one by one, each as the
\* request of a one-shot invocation
RECURSIVE SeparateRequests(_, _, _)
SeparateRequests(lines, dir, objects) ==
    IF lines = <<>> THEN objects
    ELSE LET r == ExecuteChunk(BuildRequest(Head(lines), FALSE), dir, objects)
         IN  SeparateRequests(Tail(lines), r.cwd, r.objs)

\* the batch request arrived whole and was run
BatchRun == BatchSent /\ lastExec.n = 1 /\ lastExec.chunk = req

\* C8: after a batch request the objects of the tree are those that the
\* same command lines leave when each is sent as a request of its own.
C8_BatchEquivalence ==
    BatchRun => objs = SeparateRequests(inputs, tree0.cwd, tree0.objs)

\* C9: when a command line raises, the error text ends the captured
\* output, the worker goes on to send the response for it, the frame
\* reaches a client that is still connected, and the worker thread ends
\* abnormally only because its client is gone.
C9_ErrorCaught ==
    /\ (lastExec.n > 0 /\ lastExec.raised)
          => /\ Len(lastExec.out) >= Len(ErrText)
             /\ Drop(lastExec.out, Len(lastExec.out) - Len(ErrText)) = ErrText
    /\ wpc = "send" => woutput = lastExec.out
    /\ wpc = "recv"
          => /\ lastFrame.n = lastExec.n
             /\ lastExec.n > 0 => lastFrame.text = lastExec.out
    /\ wpc = "dead" => ~conn[wconn].cliOpen

\* the response to a request with a failing command line was sent
C9_Witness ==
    /\ lastExec.raised
    /\ wpc = "recv"
    /\ lastFrame.n = lastExec.n
    /\ lastFrame.text = lastExec.out
    /\ cpc = "output"
    /\ output = lastExec.out

\* C10: every command line of a batch request is run, whether or not an
\* earlier one raised.
C10_BatchContinues ==
    BatchRun => LogCmds(lastExec.log) = Split(req)

\* a one-shot or batch session
NonInteractive == spc \in {"oneshot_call", "batch_call"}

\* the argument of call_daemon in a one-shot or batch session
GivenRequest == IF mode = "oneshot" THEN argv ELSE JoinLines(inputs)

\* C11: the response to a one-shot or batch request, and the objects it
\* leaves, do not depend on the current node a prior session left in the
\* daemon: run from any other current node, the first chunk the worker runs
\* for the session writes the same output and leaves the same objects, and
\* the text the client has read for a request that arrived whole is the one
\* the given command lines write from any current node.
C11_NonInteractiveReset ==
    /\ (NonInteractive /\ lastExec.n = 1)
          => \A d \in {RootPath, SubPath} :
                LET r == ExecuteChunk(lastExec.chunk, d, tree0.objs)
                IN  /\ r.out = lastExec.out
                    /\ r.objs = objs
    /\ (NonInteractive /\ cpc \in ResponseRead /\ lastExec.n = 1
        /\ lastExec.chunk = req)
          => \A d \in {RootPath, SubPath} :
                output = ExecuteChunk(BuildRequest(GivenRequest, FALSE),
                                      d, tree0.objs).out

\* a one-shot pwd against a daemon left below the root prints the root
C11_Witness ==
    /\ mode = "oneshot"
    /\ argv = Pwd
    /\ tree0.cwd = SubPath
    /\ cpc = "return"
    /\ lastExec.chunk = req
    /\ printed = RootPath \o <<"nl">>

\* C12: a signal delivered while main waits in accept clears NoSignal and
\* closes the listening socket; the process then leaves the loop, releases
\* the lock on the PID file and exits with status 0 (unless the unlock
\* itself fails), and no longer holds the lock, so that a daemon started
\* afterwards acquires it.
C12_GracefulShutdown ==
    \A d \in Daemons :
        "accept" \in dsignal[d]
            => /\ ~NoSignal[d]
               /\ sock[d] = "closed"
               /\ dpc[d] \in {"accept", "release", "exited"}
               /\ dpc[d] = "exited"
                     => /\ dfrom[d] = "release"
                        /\ d \notin pidLock
                        /\ dmsg[d] # UnlockFailed => dexit[d] = 0

\* the positions of main inside and after the accept loop
LoopPcs == {"accept", "join", "release"}

\* C13: a process that ended after it had entered the accept loop has called
\* release_pidfile_lock before it ended, and its exit status is 0 exactly
\* when a signal had been delivered to it (unless the unlock itself fails,
\* which ends the process with a non-zero status).
C13_ExitStatus ==
    \A d \in Daemons :
        (dpc[d] = "exited" /\ dfrom[d] \in LoopPcs)
            => /\ dfrom[d] = "release"
               /\ dmsg[d] # UnlockFailed
                     => (dexit[d] = 0 <=> dsignal[d] # {})
               /\ dexit[d] = 0 => dsignal[d] # {}

\* C14: a client on the daemon path whose connect fails displays the hint
\* and ends with a non-zero status straight from the daemon path; a process
\* on the daemon path, or one that displayed the hint, has built no local
\* tree and is not on the local path.
C14_NoFallback ==
    \A c \in Clients :
        /\ kmsg[c] = Hint
              => /\ kpc[c] = "exited"
                 /\ kfrom[c] = "daemon"
                 /\ kexit[c] > 0
                 /\ ~klocal[c]
        /\ kpc[c] = "daemon" => ~klocal[c]
        /\ kfrom[c] = "daemon" => ~klocal[c]

\* the saved preference selects the daemon, the connect failed, and the
\* process ended with the hint and status 1
C14_Witness ==
    \E c \in Clients :
        /\ auto_use_daemon
        /\ kargs[c] = "cmd"
        /\ kmsg[c] = Hint
        /\ kfrom[c] = "daemon"
        /\ kexit[c] = 1

\* C15: a client started with a help or version flag ends before it opens
\* the lock file: it is never at the lock attempt, never holds the lock and
\* never ends from a position past the open.
C15_HelpBeforeLock ==
    \A c \in Clients :
        kargs[c] \in {"help", "version"}
            => /\ kpc[c] \in {"off", "open", "exited"}
               /\ c \notin opLock
               /\ kpc[c] = "exited" => kfrom[c] = "open"

C17_ReleaseOnExit ==
    \A c \in Clients :
        (kpc[c] = "exited" /\ kfrom[c] \in LockedPcs) => kreleased[c]

\* C18: in a daemon interactive session the prompt path begins with '/'
\* whenever the user is asked for a line or a line is being served, from the
\* first prompt on.
C18_PromptAbsolute ==
    (interactive /\ spc \in {"input", "line_call"})
        => /\ prompt_path # <<>>
           /\ prompt_path[1] = "/"

\* the framing with a daemon that can be ended while it serves
NextTrunc ==
    \/ NextFrame
    \/ DaemonKilled

SpecTrunc == InitFrame /\ [][NextTrunc]_vars

\* C19: a response cut short by the end of the daemon is fatal to the
\* client: a read of the header that meets the end of the stream ends the
\* process with a failure, and once a read of the body has returned no data
\* the client is no longer in the read loop.
C19_TruncatedFatal ==
    /\ cpc = "struct.error" => cexit > 0
    /\ empty_reads > 0 => (cpc # "recv_body" /\ cexit > 0)

\* the request of the current call has been sent on the connection the
\* worker serves
RequestSent ==
    /\ cpc \in {"recv_hdr", "recv_body"} \cup ResponseRead
    /\ wconn = nconn

\* C20: whatever the reads of the worker return, what it runs for a request
\* is the whole request, once, and it sends one response frame for it.
C20_WholeRequest ==
    (RequestSent /\ lastExec.n > 0)
        => /\ lastExec.n = 1
           /\ lastExec.chunk = req
           /\ lastFrame.n <= 1

\* the steps of the daemon's threads and those of the client process apart
\* from the wait for a line of the user
DaemonSteps ==
    \/ DaemonAccept
    \/ DaemonJoin
    \/ WorkerRecv
    \/ WorkerSend
    \/ WorkerSendBody

ClientSteps ==
    \/ SessionStart
    \/ SessionReturn
    \/ ClientConnect
    \/ ClientSend
    \/ ClientRecvHeader
    \/ ClientRecvBody
    \/ ClientEnd

\* one call of call_daemon against the daemon: a one-shot invocation, or an
\* interactive session up to its first prompt
InitCall ==
    /\ InitWire
    /\ mode \in {"oneshot", "interactive"}

NextCall ==
    \/ DaemonSteps
    \/ ClientSteps

\* the client and the daemon, each scheduled as long as it can take a step
SpecCall ==
    /\ InitCall
    /\ [][NextCall]_vars
    /\ WF_vars(DaemonSteps)
    /\ WF_vars(ClientSteps)

\* the sentinel is sent only by a call that has read the whole body its
\* header announced, with nothing of a single response left unread
SentinelAfterResponse ==
    /\ cpc \in ResponseRead => amount_received >= amount_expected
    /\ (cpc = "output" /\ lastFrame.n = 1)
          => /\ conn[nconn].s2c = <<>>
             /\ output = lastFrame.text
    /\ (nconn > 0 /\ Contains(conn[nconn].c2s, Sentinel))
          => cpc \in {"return", "idle", "connect"}

\* nothing is run for a chunk with the sentinel: the worker ends normally
\* exactly on such a chunk, with the connection closed, and no chunk it ran
\* had the sentinel in it
SentinelChunkEnds ==
    /\ wpc = "done" => /\ Contains(data, Sentinel)
                       /\ ~conn[wconn].srvOpen
    /\ lastExec.n > 0 => ~Contains(lastExec.chunk, Sentinel)
    /\ (wpc \in {"send", "send_body"} \/ (wpc = "recv" /\ lastExec.n > 0))
          => data = lastExec.chunk

\* C21: the client sends the sentinel only after it has read the whole
\* response; a chunk with the sentinel is not run, the connection is closed
\* and the worker ends; and every accepted connection comes to its end:
\* main is back at accept, where no worker is left.
C21_Lifecycle ==
    /\ []SentinelAfterResponse
    /\ []SentinelChunkEnds
    /\ [](mpc = "accept" <=> wpc = "none")
    /\ (mpc = "join") ~> (mpc = "accept")

\* the worker has run one request, sent its response and ended on the
\* sentinel of a client that has left call_daemon
C21_Witness ==
    /\ wpc = "done"
    /\ Contains(data, Sentinel)
    /\ lastExec.n = 1
    /\ lastFrame.n = 1
    /\ ~conn[wconn].srvOpen
    /\ spc = "exited"
    /\ cexit = 0

\* C22: after a signal delivered while main waits in thread.join() for the
\* worker of a connection, main accepts no further connection: it stays in
\* join until the worker has ended, then releases the lock on the PID file
\* and the process exits with status 0 (unless the unlock itself fails).
C22_SignalWhileServing ==
    \A d \in Daemons :
        "join" \in dsignal[d]
            => /\ ~NoSignal[d]
               /\ dpc[d] \in {"join", "release", "exited"}
               /\ dpc[d] = "release" => workers[d][naccept[d]] = "ended"
               /\ dpc[d] = "exited"
                     => /\ dfrom[d] = "release"
                        /\ d \notin pidLock
                        /\ dmsg[d] # UnlockFailed => dexit[d] = 0

\* C23: whenever main waits in accept, or a worker waits for the next chunk
\* of its connection, the sink of the console is the one saved at startup;
\* the sink is a capture file only while a worker runs a request.
C23_SinksRestored ==
    \A d \in Daemons :
        /\ (dpc[d] = "accept" \/ \E w \in WorkerIds : workers[d][w] = "serving")
              => con_stdout[d] = "saved"
        /\ con_stdout[d] = "capture"
              => \E w \in WorkerIds : workers[d][w] = "executing"

\* C24: a batch session opens no connection while lines are entered; it
\* opens one connection, when a line is the exit keyword, and what it sends
\* on it is one request made of the lines entered, in their order; the
\* session ends only after that call.
C24_BatchOneRequest ==
    mode = "batch"
        => /\ spc \in {"start", "input"}
                 => /\ nconn = 0
                    /\ cpc = "idle"
                    /\ \A i \in 1..Len(inputs) : ~IsExit(inputs[i])
           /\ nconn <= 1
           /\ spc \in {"batch_call", "exited"}
                 => /\ inputs # <<>>
                    /\ IsExit(inputs[Len(inputs)])
                    /\ \A i \in 1..(Len(inputs) - 1) : ~IsExit(inputs[i])
           /\ spc = "exited" => nconn = 1
           /\ BatchSent => req = BuildRequest(JoinLines(inputs), FALSE)
           /\ (BatchSent /\ cpc = "recv_hdr" /\ accepted = 0)
                 => conn[1].c2s = req

\* two lines and the exit keyword were entered, the one request was answered
\* and the session has ended
C24_Witness ==
    /\ mode = "batch"
    /\ Len(inputs) = 3
    /\ nconn = 1
    /\ accepted = 1
    /\ spc = "exited"
    /\ cexit = 0

\* the command of the line is cd
IsCdLine(line) == line # <<>> /\ line[1] = "cd "

\* the request of the current call has been built and sent
CallSent == cpc \in {"recv_hdr", "recv_body"} \cup ResponseRead

\* C25: the request of the first call of an interactive session is pwd
\* alone, with the path requested; the request for an interactive line ends
\* with the pwd marker, and the path is requested, exactly when the command
\* of the line is a directory change; a one-shot or batch request never has
\* the marker; and the last line of the response is taken as the path,
\* instead of being printed, exactly when the path was requested.
C25_PwdMarker ==
    /\ (spc = "initpwd_call" /\ CallSent) => (get_pwd /\ req = Pwd)
    /\ (spc = "line_call" /\ CallSent)
          => /\ get_pwd <=> IsCdLine(Split(req)[1])
             /\ IF get_pwd
                THEN Len(Split(req)) = 2 /\ Split(req)[2] = Pwd
                ELSE Len(Split(req)) = 1
    /\ (NonInteractive /\ CallSent)
          => /\ ~get_pwd
             /\ req = CdRoot \o <<Delim>> \o GivenRequest
    /\ cpc = "return"
          => IF get_pwd
             THEN LET lines == SplitLines(output)
                  IN  /\ path = IF lines = <<>> THEN <<>> ELSE lines[Len(lines)]
                      /\ printed = PrintLines(lines)
             ELSE printed = output /\ path = <<>>

\* what main does to the socket path without LISTEN_PID, as far as it got
FreshSocket == {<<>>, <<"unlink", "bind">>, <<"unlink", "bind", "listen">>}

\* the socket is set up by a process that holds the lock on the PID file
\* and has built the tree
SocketAfterTree ==
    \A d \in Daemons :
        /\ dpc[d] \in {"sock", "accept", "join", "release"}
              => (d \in pidLock /\ dtree[d])
        /\ (sock[d] # "none" \/ dtouch[d] # <<>>) => dtree[d]
        /\ dtree[d] => dmsg[d] # AlreadyRunning

\* the tree is built in one step of main, taken once: main is at the
\* building of the tree only straight after the lock attempt, and never
\* again once it has gone on to the socket
TreeOnce ==
    \A d \in Daemons :
        /\ dtree'[d] # dtree[d]
              => (~dtree[d] /\ dpc[d] = "tree" /\ dpc'[d] = "sock")
        /\ (dpc'[d] = "tree" /\ dpc[d] # "tree") => dpc[d] = "lock"
        /\ (dpc'[d] = "sock" /\ dpc[d] # "sock") => dpc[d] = "tree"

\* C26: a daemon started with LISTEN_PID adopts the inherited descriptor and
\* never unlinks, binds or listens on the socket path; one started without
\* it unlinks the path, then binds and listens on a socket of its own; and
\* either is done only by a process that holds the lock on the PID file and
\* has built the tree, once.
C26_SocketSetup ==
    /\ [](\A d \in Daemons :
             /\ listen_pid[d]
                   => /\ dtouch[d] = <<>>
                      /\ sock[d] \in {"none", "inherited", "closed"}
                      /\ (dpc[d] \in {"accept", "join"} /\ NoSignal[d])
                            => sock[d] = "inherited"
             /\ ~listen_pid[d]
                   => /\ dtouch[d] \in FreshSocket
                      /\ sock[d] # "inherited"
                      /\ sock[d] # "none"
                            <=> dtouch[d] = <<"unlink", "bind", "listen">>
                      /\ (dpc[d] \in {"accept", "join"} /\ NoSignal[d])
                            => sock[d] = "listening")
    /\ []SocketAfterTree
    /\ [][TreeOnce]_vars

\* one daemon has served on an inherited descriptor and ended; the next one,
\* started without LISTEN_PID, listens on a socket of its own
C26_Witness ==
    \E d1, d2 \in Daemons :
        /\ listen_pid[d1]
        /\ dfrom[d1] = "release"
        /\ sock[d1] = "closed"
        /\ dtouch[d1] = <<>>
        /\ ~listen_pid[d2]
        /\ dpc[d2] = "accept"
        /\ sock[d2] = "listening"
        /\ dtouch[d2] = <<"unlink", "bind", "listen">>
        /\ dtree[d2]

\* one call against the daemon, by a client that can be ended in the
\* middle of it
NextAbort ==
    \/ NextCall
    \/ ClientKilled

SpecAbort ==
    /\ InitCall
    /\ [][NextAbort]_vars
    /\ WF_vars(DaemonSteps)
    /\ WF_vars(ClientSteps)

\* C27: when the client of a connection has ended without sending the
\* sentinel, the connection is served to its end and main is back at accept
\* with no worker left, whether the connection was accepted before or after
\* the client ended; a worker that has ended without the sentinel has met
\* the closed connection.
C27_ClientGone ==
    /\ [](wpc = "dead" => ~conn[wconn].cliOpen)
    /\ [](mpc = "accept" <=> wpc = "none")
    /\ (cpc = "killed") ~> (mpc = "accept" /\ accepted = nconn)

\* the client was ended in the middle of a call, and the daemon has served
\* the connection to its end and is back at accept
C27_Witness ==
    /\ cpc = "killed"
    /\ accepted = 1
    /\ mpc = "accept"
    /\ wpc = "none"

\* the steps of one client process once it was started, apart from a flock
\* that raises
ClientRun(c) ==
    \/ OpenLockFile(c)
    \/ try_op_lock(c) /\ c \in opLock'
    \/ MainDecide(c)
    \/ DaemonSession(c)
    \/ LocalTree(c)
    \/ LocalOneshot(c)
    \/ LocalShell(c)

\* the client processes, each going on as long as it can take a step
SpecClientLive == SpecClient /\ \A c \in Clients : WF_vars(ClientRun(c))

\* the lock on the lock file is held by running processes only, and flock
\* returns for a waiting process when no other process holds the lock
LockDiesWithHolder ==
    \A c \in Clients :
        /\ c \in opLock => kpc[c] \in LockedPcs
        /\ kpc[c] = "exited" => c \notin opLock
        /\ (kpc[c] = "lock" /\ \A h \in Clients \ {c} : kpc[h] \notin LockedPcs)
              => OpLockFree(c)

\* C28: no exit path leaves the lock held: a process that has ended holds
\* no lock, whether or not it called release_op_lock, and a process that
\* waits in try_op_lock leaves the wait: it takes the lock once the holders
\* before it have ended (or its flock raises).
C28_LockReleasedAtExit ==
    /\ []LockDiesWithHolder
    /\ \A c \in Clients : (kpc[c] = "lock") ~> (kpc[c] # "lock")
    /\ \A c \in Clients : (kpc[c] = "lock") ~> (opLock \subseteq {c})

\* a process took the lock after the holder it waited for had ended without
\* calling release_op_lock
C28_Witness ==
    \E c1, c2 \in Clients :
        /\ kpc[c1] = "exited"
        /\ kfrom[c1] \in LockedPcs
        /\ ~kreleased[c1]
        /\ c2 \in opLock
        /\ kpc[c2] \in LockedPcs

\* the one-shot request arrived whole, was run, and its response was read
OneshotAnswered ==
    /\ mode = "oneshot"
    /\ cpc \in ResponseRead
    /\ wconn = nconn
    /\ lastExec.n = 1
    /\ lastExec.chunk = req
    /\ lastFrame.n = 1

\* C29: a one-shot invocation on the daemon path that has read a response
\* ends with status 0, also when the command raised in the daemon: the
\* error is then the end of the text it read, and the status is non-zero
\* only when the call itself failed; the same command on the local path
\* ends with status 1 exactly when it raises.
C29_OneshotStatus ==
    /\ (mode = "oneshot" /\ spc = "exited")
          => /\ cpc = "idle" => cexit = 0
             /\ cexit = 0 => cpc = "idle"
             /\ cexit # 0 => cpc \in CrashPcs
    /\ OneshotAnswered
          => /\ cexit = -1
             /\ lastExec.raised
                   <=> LocalStatus(argv, RootPath, tree0.objs) = 1
             /\ lastExec.raised
                   => /\ Len(output) >= Len(ErrText)
                      /\ Drop(output, Len(output) - Len(ErrText)) = ErrText

\* a one-shot delete of an object that does not exist has printed the error
\* text and ended with status 0; the local path ends with status 1 for it
C29_Witness ==
    /\ mode = "oneshot"
    /\ argv = Rm("x")
    /\ tree0.objs = {}
    /\ spc = "exited"
    /\ cpc = "idle"
    /\ cexit = 0
    /\ printed = ErrText
    /\ LocalStatus(argv, RootPath, tree0.objs) = 1

\* the lines that cause no request: the empty line and the exit keyword
NoRequestLines == {<<>>, ExitCmd, ExitUpper}

\* C30: in an interactive session the connections opened are one for the
\* initial pwd and one for each line that is neither empty nor the exit
\* keyword, in upper or lower case; such a line is the one request of its
\* connection; the user is asked for the next line only when the call has
\* returned and its connection is closed; and the session that ends on the
\* exit keyword has opened no connection for it.
C30_InteractiveLines ==
    interactive
        => /\ spc = "input"
                 => /\ nconn = nlines + 1
                    /\ cpc = "idle"
                    /\ \A k \in 1..nconn : ~conn[k].cliOpen
           /\ spc = "line_call"
                 => /\ nconn = IF cpc = "connect" THEN nlines ELSE nlines + 1
                    /\ Split(req)[1] \notin NoRequestLines
                    /\ (cpc = "recv_hdr" /\ accepted < nconn)
                          => conn[nconn].c2s = req
           /\ (spc = "exited" /\ cexit = 0)
                 => /\ nconn = nlines + 1
                    /\ cpc = "idle"
                    /\ \A k \in 1..nconn : ~conn[k].cliOpen

\* two lines were served, each on a connection of its own, and the session
\* has ended on the exit keyword
C30_Witness ==
    /\ interactive
    /\ nlines = 2
    /\ nconn = 3
    /\ accepted = 3
    /\ spc = "exited"
    /\ cexit = 0

====
